---- MODULE Spec2Model ----
(***************************************************************************)
(* State-machine model of the HTMLCleaner event filter of                  *)
(* src/html_cleaner.py.  The tokenizer (html.parser.HTMLParser) is the     *)
(* environment: it delivers start-tag, end-tag, self-closing-tag, text,    *)
(* comment and declaration events, one per step.  Tag names are strings;   *)
(* attribute names and values are sequences of characters so that the      *)
(* prefix tests and the escaping of the source can be computed.            *)
(***************************************************************************)
EXTENDS Integers, Sequences, FiniteSets, TLC

(* ---------------------------------------------------------------------- *)
(* Bounds of the exploration                                              *)
(* ---------------------------------------------------------------------- *)
\* number of tokenizer events of one document in the specification Spec
MaxEvents == 3
\* number of tokenizer events of one document in the specification SpecDoc
MaxDocEvents == 5
\* number of attributes of the tag of the specification SpecAttrs
MaxAttrs == 2

\* events fed to two instances together
MaxTwoEvents == 4

\* events of the document the command line is run on
MaxCliEvents == 2

\* tokens of a text given to remove_empty_tags
MaxTokens == 3

\* max_iterations of remove_empty_tags
max_iterations == 50

(* ---------------------------------------------------------------------- *)
(* Policy tables (class attributes of HTMLCleaner)                        *)
(* ---------------------------------------------------------------------- *)
SELF_CLOSING_MEDIA_TAGS == {"img", "source", "track", "embed"}

MEDIA_TAGS_WITH_CONTENT == {"video", "audio", "iframe", "object", "svg", "canvas"}

MEDIA_TAGS == SELF_CLOSING_MEDIA_TAGS \cup MEDIA_TAGS_WITH_CONTENT

REMOVE_WITH_CONTENT == {"style", "script", "noscript"}

FORM_TAGS == {"form", "input", "button", "textarea", "select", "option", "label",
              "fieldset", "legend", "datalist", "output", "optgroup"}

NAV_TAGS == {"nav", "header", "footer"}

METADATA_TAGS == {"meta", "base", "link"}

\* the unwrap set without the anchor tag
UNWRAP_TAGS_span_only == {"span"}

UNWRAP_TAGS == {"a", "span"}

\* Python's None, as the value of a current_*_tag field
NoTag == "None"

(* ---------------------------------------------------------------------- *)
(* Character strings                                                      *)
(* ---------------------------------------------------------------------- *)
\* Python's None as an attribute value (<div hidden> gives ('hidden', None))
NoneValue == <<"None">>

S_style == <<"s", "t", "y", "l", "e">>
S_href == <<"h", "r", "e", "f">>
S_class == <<"c", "l", "a", "s", "s">>
S_id == <<"i", "d">>
S_on == <<"o", "n">>
S_data_ == <<"d", "a", "t", "a", "-">>
S_aria_ == <<"a", "r", "i", "a", "-">>
S_rel == <<"r", "e", "l">>
S_stylesheet == <<"s", "t", "y", "l", "e", "s", "h", "e", "e", "t">>
S_hidden == <<"h", "i", "d", "d", "e", "n">>
S_aria_hidden == <<"a", "r", "i", "a", "-", "h", "i", "d", "d", "e", "n">>
S_true == <<"t", "r", "u", "e">>
S_type == <<"t", "y", "p", "e">>
S_lang == <<"l", "a", "n", "g">>

\* str.startswith
startswith(s, prefix) ==
    /\ Len(s) >= Len(prefix)
    /\ SubSeq(s, 1, Len(prefix)) = prefix

\* html.escape(s, quote=True) on one character
escape_char(c) ==
    CASE c = "&" -> <<"&", "a", "m", "p", ";">>
      [] c = "<" -> <<"&", "l", "t", ";">>
      [] c = ">" -> <<"&", "g", "t", ";">>
      [] c = "\"" -> <<"&", "q", "u", "o", "t", ";">>
      [] c = "'" -> <<"&", "#", "x", "2", "7", ";">>
      [] OTHER -> <<c>>

RECURSIVE escape(_)
\* html.escape(s, quote=True)
escape(s) ==
    IF s = <<>> THEN <<>> ELSE escape_char(Head(s)) \o escape(Tail(s))

(* ---------------------------------------------------------------------- *)
(* Inputs: the tags, attribute lists and data the tokenizer delivers      *)
(* ---------------------------------------------------------------------- *)
\* one or more tags of every policy class, and a retained tag
Tags == {"script", "form", "label", "input", "nav", "video", "img", "meta",
         "a", "head", "title", "p"}

\* the tags of the documents of SpecDoc
DocTags == {"head", "title", "form", "label", "nav", "p"}

\* raw attribute lists: none; the three hidden signals; a dropped and a kept one
AttrLists == { <<>>,
               << <<S_hidden, NoneValue>> >>,
               << <<S_type, S_hidden>> >>,
               << <<S_aria_hidden, S_true>> >>,
               << <<S_class, <<"c">> >>, <<S_lang, <<"e", "&">> >> >> }

\* the tags that are delivered with each of the attribute lists; the other tags
\* are delivered without attributes
AttrTags == {"p", "a", "input", "head"}

\* the <<tag, attrs>> pairs of the start-tag and self-closing-tag events
TagInputs == (Tags \X {<<>>}) \cup (AttrTags \X AttrLists)

DocInputs == DocTags \X {<<>>}

TextData == {"t"}

DeclData == {"DOCTYPE html"}

\* elements that never have an end tag in HTML (those among Tags)
VoidTags == {"img", "input", "meta", "source", "track", "embed", "base", "link", "br"}

(* ---------------------------------------------------------------------- *)
(* State                                                                  *)
(* ---------------------------------------------------------------------- *)
VARIABLES
    output,              \* self.output: list of emitted fragments
    skip_content,        \* self.skip_content
    current_skip_tag,    \* self.current_skip_tag
    skip_media_content,  \* self.skip_media_content
    current_media_tag,   \* self.current_media_tag
    skip_form_content,   \* self.skip_form_content
    current_form_tag,    \* self.current_form_tag
    skip_nav_content,    \* self.skip_nav_content
    current_nav_tag,     \* self.current_nav_tag
    in_head,             \* self.in_head
    in_title,            \* self.in_title
    ev,                  \* the event the tokenizer delivered last
    nEvents,             \* number of events delivered
    open,                \* the elements of the input that are open, innermost last
    wellNested,          \* every end tag so far closed the innermost open element
    nestedTags,          \* the tag names that were opened inside an element of the same name
    cur,                 \* the instance that handles the events: 0 when there is only one
    other,               \* the second instance, when there is one: its fields, its document,
                         \* and the number of events delivered when it handed over
    hist,                \* the events each of two instances has handled
    cli,                 \* the run of the command line: clean_html and __main__
    fmt                  \* the run of remove_empty_tags

flags == <<skip_content, current_skip_tag, skip_media_content, current_media_tag,
           skip_form_content, current_form_tag, skip_nav_content, current_nav_tag>>

section == <<in_head, in_title>>

vars == <<output, skip_content, current_skip_tag, skip_media_content,
          current_media_tag, skip_form_content, current_form_tag,
          skip_nav_content, current_nav_tag, in_head, in_title,
          ev, nEvents, open, wellNested, nestedTags, cur, other, hist, cli, fmt>>

(* ---------------------------------------------------------------------- *)
(* Helpers of HTMLCleaner                                                 *)
(* ---------------------------------------------------------------------- *)
is_stylesheet_link(tag, attrs) ==
    /\ tag = "link"
    /\ \E i \in 1..Len(attrs) : attrs[i][1] = S_rel /\ attrs[i][2] = S_stylesheet

\* _has_hidden_attribute without the test of type="hidden"
has_hidden_attribute_no_type(attrs) ==
    \E i \in 1..Len(attrs) :
        \/ attrs[i][1] = S_hidden
        \/ attrs[i][1] = S_aria_hidden /\ attrs[i][2] = S_true

has_hidden_attribute(attrs) ==
    \E i \in 1..Len(attrs) :
        \/ attrs[i][1] = S_hidden
        \/ attrs[i][1] = S_aria_hidden /\ attrs[i][2] = S_true
        \/ attrs[i][1] = S_type /\ attrs[i][2] = S_hidden

\* the test of _clean_attributes with the prefix 'data' instead of 'data-'
drop_attribute_data_prefix(attr) ==
    \/ attr = S_style
    \/ attr = S_href
    \/ attr \in {S_class, S_id}
    \/ startswith(attr, S_on)
    \/ startswith(attr, <<"d", "a", "t", "a">>)
    \/ startswith(attr, S_aria_)

\* the test of one attribute in the loop of _clean_attributes
drop_attribute(attr) ==
    \/ attr = S_style
    \/ attr = S_href
    \/ attr \in {S_class, S_id}
    \/ startswith(attr, S_on)
    \/ startswith(attr, S_data_)
    \/ startswith(attr, S_aria_)

RECURSIVE clean_attributes_skip_after_remove(_)
\* _clean_attributes that removes from the list it iterates over, so that the
\* attribute after a removed one is not examined
clean_attributes_skip_after_remove(attrs) ==
    IF attrs = <<>> THEN <<>>
    ELSE IF drop_attribute(Head(attrs)[1]) THEN
        IF Len(attrs) >= 2
        THEN <<attrs[2]>> \o clean_attributes_skip_after_remove(Tail(Tail(attrs)))
        ELSE <<>>
    ELSE <<Head(attrs)>> \o clean_attributes_skip_after_remove(Tail(attrs))

RECURSIVE clean_attributes(_)
clean_attributes(attrs) ==
    IF attrs = <<>> THEN <<>>
    ELSE IF drop_attribute(Head(attrs)[1]) THEN clean_attributes(Tail(attrs))
    ELSE <<Head(attrs)>> \o clean_attributes(Tail(attrs))

\* the rendering attr="escaped value" of one attribute; None renders as ""
render_attribute(a) ==
    <<a[1], escape(IF a[2] = NoneValue THEN <<>> ELSE a[2])>>

\* <tag a="v" ...> or <tag a="v" .../>, as the fragment it denotes
build_tag_string(tag, attrs, self_closing) ==
    [kind |-> IF self_closing THEN "selfclose" ELSE "open",
     name |-> tag,
     attrs |-> [i \in 1..Len(attrs) |-> render_attribute(attrs[i])]]

\* </tag>
end_tag_string(tag) == [kind |-> "close", name |-> tag, attrs |-> <<>>]

\* text appended verbatim
data_string(data) == [kind |-> "text", name |-> data, attrs |-> <<>>]

\* <!decl>
decl_string(decl) == [kind |-> "decl", name |-> decl, attrs |-> <<>>]

(* ---------------------------------------------------------------------- *)
(* Construction                                                           *)
(* ---------------------------------------------------------------------- *)
NoEvent == [kind |-> "none", tag |-> NoTag, attrs |-> <<>>]

\* clean_html has not been called
NoCli == [pc |-> "none"]

\* remove_empty_tags has not been called
NoFmt == [pc |-> "none"]

\* HTMLCleaner(): the fields as __init__ sets them, nothing fed yet
Constructed ==
    /\ output = <<>>
    /\ skip_content = FALSE
    /\ current_skip_tag = NoTag
    /\ skip_media_content = FALSE
    /\ current_media_tag = NoTag
    /\ skip_form_content = FALSE
    /\ current_form_tag = NoTag
    /\ skip_nav_content = FALSE
    /\ current_nav_tag = NoTag
    /\ in_head = FALSE
    /\ in_title = FALSE
    /\ ev = NoEvent
    /\ nEvents = 0
    /\ open = <<>>
    /\ wellNested = TRUE
    /\ nestedTags = {}

\* one filter instance; the command line and remove_empty_tags are not run
Init ==
    /\ Constructed
    /\ cur = 0
    /\ other = <<>>
    /\ hist = <<>>
    /\ cli = NoCli
    /\ fmt = NoFmt

(* ---------------------------------------------------------------------- *)
(* Event handlers                                                         *)
(* ---------------------------------------------------------------------- *)
handle_starttag(tag, attrs) ==
    /\ in_head' = IF tag = "head" THEN TRUE ELSE in_head
    /\ in_title' = IF tag = "title" THEN TRUE ELSE in_title
    /\ IF tag \in REMOVE_WITH_CONTENT THEN
           /\ skip_content' = TRUE
           /\ current_skip_tag' = tag
           /\ UNCHANGED <<output, skip_media_content, current_media_tag,
                          skip_form_content, current_form_tag,
                          skip_nav_content, current_nav_tag>>
       ELSE IF tag \in FORM_TAGS THEN
           /\ skip_form_content' = TRUE
           /\ current_form_tag' = tag
           /\ UNCHANGED <<output, skip_content, current_skip_tag,
                          skip_media_content, current_media_tag,
                          skip_nav_content, current_nav_tag>>
       ELSE IF tag \in NAV_TAGS THEN
           /\ skip_nav_content' = TRUE
           /\ current_nav_tag' = tag
           /\ UNCHANGED <<output, skip_content, current_skip_tag,
                          skip_media_content, current_media_tag,
                          skip_form_content, current_form_tag>>
       ELSE IF tag \in MEDIA_TAGS THEN
           /\ IF tag \in MEDIA_TAGS_WITH_CONTENT
              THEN /\ skip_media_content' = TRUE
                   /\ current_media_tag' = tag
              ELSE UNCHANGED <<skip_media_content, current_media_tag>>
           /\ UNCHANGED <<output, skip_content, current_skip_tag,
                          skip_form_content, current_form_tag,
                          skip_nav_content, current_nav_tag>>
       ELSE IF tag \in METADATA_TAGS THEN
           UNCHANGED <<output, flags>>
       ELSE IF is_stylesheet_link(tag, attrs) THEN
           UNCHANGED <<output, flags>>
       ELSE IF has_hidden_attribute(attrs) THEN
           UNCHANGED <<output, flags>>
       ELSE IF tag \in UNWRAP_TAGS THEN
           UNCHANGED <<output, flags>>
       ELSE
           /\ output' = Append(output,
                               build_tag_string(tag, clean_attributes(attrs), FALSE))
           /\ UNCHANGED flags

\* handle_endtag that clears the form flag but not the recorded form tag
handle_endtag_keep_form_tag(tag) ==
    /\ in_head' = IF tag = "head" THEN FALSE ELSE in_head
    /\ in_title' = IF tag = "title" THEN FALSE ELSE in_title
    /\ IF skip_content /\ tag = current_skip_tag THEN
           /\ skip_content' = FALSE
           /\ current_skip_tag' = NoTag
           /\ UNCHANGED <<output, skip_media_content, current_media_tag,
                          skip_form_content, current_form_tag,
                          skip_nav_content, current_nav_tag>>
       ELSE IF skip_form_content /\ tag = current_form_tag THEN
           /\ skip_form_content' = FALSE
           /\ UNCHANGED <<output, current_form_tag, skip_content, current_skip_tag,
                          skip_media_content, current_media_tag,
                          skip_nav_content, current_nav_tag>>
       ELSE IF skip_nav_content /\ tag = current_nav_tag THEN
           /\ skip_nav_content' = FALSE
           /\ current_nav_tag' = NoTag
           /\ UNCHANGED <<output, skip_content, current_skip_tag,
                          skip_media_content, current_media_tag,
                          skip_form_content, current_form_tag>>
       ELSE IF skip_media_content /\ tag = current_media_tag THEN
           /\ skip_media_content' = FALSE
           /\ current_media_tag' = NoTag
           /\ UNCHANGED <<output, skip_content, current_skip_tag,
                          skip_form_content, current_form_tag,
                          skip_nav_content, current_nav_tag>>
       ELSE IF \/ tag \in REMOVE_WITH_CONTENT
               \/ tag \in MEDIA_TAGS
               \/ tag \in FORM_TAGS
               \/ tag \in NAV_TAGS
               \/ tag \in METADATA_TAGS THEN
           UNCHANGED <<output, flags>>
       ELSE IF tag \in UNWRAP_TAGS THEN
           UNCHANGED <<output, flags>>
       ELSE
           /\ output' = Append(output, end_tag_string(tag))
           /\ UNCHANGED flags

\* handle_endtag whose test of removed tags leaves out the form tags
handle_endtag_no_form_test(tag) ==
    /\ in_head' = IF tag = "head" THEN FALSE ELSE in_head
    /\ in_title' = IF tag = "title" THEN FALSE ELSE in_title
    /\ IF skip_content /\ tag = current_skip_tag THEN
           /\ skip_content' = FALSE
           /\ current_skip_tag' = NoTag
           /\ UNCHANGED <<output, skip_media_content, current_media_tag,
                          skip_form_content, current_form_tag,
                          skip_nav_content, current_nav_tag>>
       ELSE IF skip_form_content /\ tag = current_form_tag THEN
           /\ skip_form_content' = FALSE
           /\ current_form_tag' = NoTag
           /\ UNCHANGED <<output, skip_content, current_skip_tag,
                          skip_media_content, current_media_tag,
                          skip_nav_content, current_nav_tag>>
       ELSE IF skip_nav_content /\ tag = current_nav_tag THEN
           /\ skip_nav_content' = FALSE
           /\ current_nav_tag' = NoTag
           /\ UNCHANGED <<output, skip_content, current_skip_tag,
                          skip_media_content, current_media_tag,
                          skip_form_content, current_form_tag>>
       ELSE IF skip_media_content /\ tag = current_media_tag THEN
           /\ skip_media_content' = FALSE
           /\ current_media_tag' = NoTag
           /\ UNCHANGED <<output, skip_content, current_skip_tag,
                          skip_form_content, current_form_tag,
                          skip_nav_content, current_nav_tag>>
       ELSE IF \/ tag \in REMOVE_WITH_CONTENT
               \/ tag \in MEDIA_TAGS
               \/ tag \in NAV_TAGS
               \/ tag \in METADATA_TAGS THEN
           UNCHANGED <<output, flags>>
       ELSE IF tag \in UNWRAP_TAGS THEN
           UNCHANGED <<output, flags>>
       ELSE
           /\ output' = Append(output, end_tag_string(tag))
           /\ UNCHANGED flags

handle_endtag(tag) ==
    /\ in_head' = IF tag = "head" THEN FALSE ELSE in_head
    /\ in_title' = IF tag = "title" THEN FALSE ELSE in_title
    /\ IF skip_content /\ tag = current_skip_tag THEN
           /\ skip_content' = FALSE
           /\ current_skip_tag' = NoTag
           /\ UNCHANGED <<output, skip_media_content, current_media_tag,
                          skip_form_content, current_form_tag,
                          skip_nav_content, current_nav_tag>>
       ELSE IF skip_form_content /\ tag = current_form_tag THEN
           /\ skip_form_content' = FALSE
           /\ current_form_tag' = NoTag
           /\ UNCHANGED <<output, skip_content, current_skip_tag,
                          skip_media_content, current_media_tag,
                          skip_nav_content, current_nav_tag>>
       ELSE IF skip_nav_content /\ tag = current_nav_tag THEN
           /\ skip_nav_content' = FALSE
           /\ current_nav_tag' = NoTag
           /\ UNCHANGED <<output, skip_content, current_skip_tag,
                          skip_media_content, current_media_tag,
                          skip_form_content, current_form_tag>>
       ELSE IF skip_media_content /\ tag = current_media_tag THEN
           /\ skip_media_content' = FALSE
           /\ current_media_tag' = NoTag
           /\ UNCHANGED <<output, skip_content, current_skip_tag,
                          skip_form_content, current_form_tag,
                          skip_nav_content, current_nav_tag>>
       ELSE IF \/ tag \in REMOVE_WITH_CONTENT
               \/ tag \in MEDIA_TAGS
               \/ tag \in FORM_TAGS
               \/ tag \in NAV_TAGS
               \/ tag \in METADATA_TAGS THEN
           UNCHANGED <<output, flags>>
       ELSE IF tag \in UNWRAP_TAGS THEN
           UNCHANGED <<output, flags>>
       ELSE
           /\ output' = Append(output, end_tag_string(tag))
           /\ UNCHANGED flags

\* handle_data that suppresses every text inside head, title included
handle_data_head_only(data) ==
    /\ IF \/ skip_content
          \/ skip_media_content
          \/ skip_form_content
          \/ skip_nav_content THEN
           UNCHANGED output
       ELSE IF in_head THEN
           UNCHANGED output
       ELSE
           output' = Append(output, data_string(data))
    /\ UNCHANGED <<flags, section>>

\* handle_data without the test of skip_nav_content
handle_data_no_nav(data) ==
    /\ IF \/ skip_content
          \/ skip_media_content
          \/ skip_form_content THEN
           UNCHANGED output
       ELSE IF in_head /\ ~in_title THEN
           UNCHANGED output
       ELSE
           output' = Append(output, data_string(data))
    /\ UNCHANGED <<flags, section>>

handle_data(data) ==
    /\ IF \/ skip_content
          \/ skip_media_content
          \/ skip_form_content
          \/ skip_nav_content THEN
           UNCHANGED output
       ELSE IF in_head /\ ~in_title THEN
           UNCHANGED output
       ELSE
           output' = Append(output, data_string(data))
    /\ UNCHANGED <<flags, section>>

\* handle_comment of the first generation: a comment outside a skip region
\* is kept
handle_comment_kept(data) ==
    /\ IF \/ skip_content
          \/ skip_media_content
          \/ skip_form_content
          \/ skip_nav_content THEN
           UNCHANGED output
       ELSE
           output' = Append(output, [kind |-> "comment", name |-> data, attrs |-> <<>>])
    /\ UNCHANGED <<flags, section>>

handle_comment(data) ==
    UNCHANGED <<output, flags, section>>

\* handle_decl that puts the declaration in front of the output
handle_decl_first(decl) ==
    /\ output' = <<decl_string(decl)>> \o output
    /\ UNCHANGED <<flags, section>>

\* handle_decl that, like handle_data, emits nothing inside a skip region
handle_decl_skipped(decl) ==
    /\ IF \/ skip_content
          \/ skip_media_content
          \/ skip_form_content
          \/ skip_nav_content THEN
           UNCHANGED output
       ELSE
           output' = Append(output, decl_string(decl))
    /\ UNCHANGED <<flags, section>>

handle_decl(decl) ==
    /\ output' = Append(output, decl_string(decl))
    /\ UNCHANGED <<flags, section>>

\* handle_startendtag that treats the tag as a start tag
handle_startendtag_as_start(tag, attrs) ==
    handle_starttag(tag, attrs)

handle_startendtag(tag, attrs) ==
    /\ IF tag \in MEDIA_TAGS THEN
           UNCHANGED output
       ELSE IF tag \in FORM_TAGS THEN
           UNCHANGED output
       ELSE IF tag \in METADATA_TAGS THEN
           UNCHANGED output
       ELSE IF is_stylesheet_link(tag, attrs) THEN
           UNCHANGED output
       ELSE IF has_hidden_attribute(attrs) THEN
           UNCHANGED output
       ELSE
           output' = Append(output,
                            build_tag_string(tag, clean_attributes(attrs), TRUE))
    /\ UNCHANGED <<flags, section>>

(* ---------------------------------------------------------------------- *)
(* The tokenizer: one event per step, and the structure of the input      *)
(* ---------------------------------------------------------------------- *)
Range(s) == {s[i] : i \in 1..Len(s)}

\* s without its last occurrence of x
RECURSIVE RemoveLast(_, _)
RemoveLast(s, x) ==
    IF s = <<>> THEN <<>>
    ELSE IF s[Len(s)] = x THEN SubSeq(s, 1, Len(s) - 1)
    ELSE Append(RemoveLast(SubSeq(s, 1, Len(s) - 1), x), s[Len(s)])

Deliver(kind, tag, attrs) ==
    /\ ev' = [kind |-> kind, tag |-> tag, attrs |-> attrs]
    /\ nEvents' = nEvents + 1
    /\ hist' = IF cur = 0 THEN hist
               ELSE [hist EXCEPT ![cur] = Append(@, ev')]
    /\ UNCHANGED <<cur, other, cli, fmt>>

StartTag(I, max) ==
    \E inp \in I :
      LET tag == inp[1]
          attrs == inp[2]
      IN
        /\ nEvents < max
        /\ handle_starttag(tag, attrs)
        /\ Deliver("start", tag, attrs)
        /\ open' = IF tag \in VoidTags THEN open ELSE Append(open, tag)
        /\ nestedTags' = IF tag \in Range(open) THEN nestedTags \cup {tag}
                                               ELSE nestedTags
        /\ UNCHANGED wellNested

EndTag(T, max) ==
    \E tag \in T :
        /\ nEvents < max
        /\ handle_endtag(tag)
        /\ Deliver("end", tag, <<>>)
        /\ open' = RemoveLast(open, tag)
        /\ wellNested' = (wellNested /\ open # <<>> /\ open[Len(open)] = tag)
        /\ UNCHANGED nestedTags

StartEndTag(I, max) ==
    \E inp \in I :
      LET tag == inp[1]
          attrs == inp[2]
      IN
        /\ nEvents < max
        /\ handle_startendtag(tag, attrs)
        /\ Deliver("startend", tag, attrs)
        /\ UNCHANGED <<open, wellNested, nestedTags>>

Data(max) ==
    \E data \in TextData :
        /\ nEvents < max
        /\ handle_data(data)
        /\ Deliver("data", data, <<>>)
        /\ UNCHANGED <<open, wellNested, nestedTags>>

Comment(max) ==
    \E data \in TextData :
        /\ nEvents < max
        /\ handle_comment(data)
        /\ Deliver("comment", data, <<>>)
        /\ UNCHANGED <<open, wellNested, nestedTags>>

Decl(max) ==
    \E decl \in DeclData :
        /\ nEvents < max
        /\ handle_decl(decl)
        /\ Deliver("decl", decl, <<>>)
        /\ UNCHANGED <<open, wellNested, nestedTags>>

Next ==
    \/ StartTag(TagInputs, MaxEvents)
    \/ EndTag(Tags, MaxEvents)
    \/ StartEndTag(TagInputs, MaxEvents)
    \/ Data(MaxEvents)
    \/ Comment(MaxEvents)
    \/ Decl(MaxEvents)

Spec == Init /\ [][Next]_vars

\* documents over DocTags without attributes: start tags, end tags and text
NextDoc ==
    \/ StartTag(DocInputs, MaxDocEvents)
    \/ EndTag(DocTags, MaxDocEvents)
    \/ Data(MaxDocEvents)

SpecDoc == Init /\ [][NextDoc]_vars

(* ---------------------------------------------------------------------- *)
(* The attribute filter on one retained tag, and the filter run again on  *)
(* its own output                                                         *)
(* ---------------------------------------------------------------------- *)
\* attribute names: each exact name and each prefix of _clean_attributes,
\* names that are next to them (o, data, aria) and a name that is kept
AttrNames == {S_style, S_href, S_class, S_id, S_on,
              <<"o", "n", "c", "l", "i", "c", "k">>, <<"o">>,
              <<"d", "a", "t", "a", "-", "x">>, <<"d", "a", "t", "a">>,
              <<"a", "r", "i", "a", "-", "x">>, <<"a", "r", "i", "a">>,
              S_lang}

AttrValues == {<<"&">>, NoneValue}

\* the attribute lists of at most n attributes
AttrListsUpTo(n) == UNION {[1..k -> AttrNames \X AttrValues] : k \in 0..n}

AttrInputs == {"p"} \X AttrListsUpTo(MaxAttrs)

RECURSIVE unescape(_)
\* the tokenizer's decoding of an attribute value: the inverse of html.escape
unescape(s) ==
    IF s = <<>> THEN <<>>
    ELSE IF startswith(s, <<"&", "a", "m", "p", ";">>)
        THEN <<"&">> \o unescape(SubSeq(s, 6, Len(s)))
    ELSE IF startswith(s, <<"&", "l", "t", ";">>)
        THEN <<"<">> \o unescape(SubSeq(s, 5, Len(s)))
    ELSE IF startswith(s, <<"&", "g", "t", ";">>)
        THEN <<">">> \o unescape(SubSeq(s, 5, Len(s)))
    ELSE IF startswith(s, <<"&", "q", "u", "o", "t", ";">>)
        THEN <<"\"">> \o unescape(SubSeq(s, 7, Len(s)))
    ELSE IF startswith(s, <<"&", "#", "x", "2", "7", ";">>)
        THEN <<"'">> \o unescape(SubSeq(s, 7, Len(s)))
    ELSE <<Head(s)>> \o unescape(Tail(s))

\* the attribute list the tokenizer delivers for an emitted tag
parse_attributes(rendered) ==
    [i \in 1..Len(rendered) |-> <<rendered[i][1], unescape(rendered[i][2])>>]

\* the second pass: the tag emitted by the first pass is tokenized and handled
Refeed ==
    /\ nEvents = 1
    /\ output # <<>>
    /\ LET frag == output[Len(output)]
           attrs == parse_attributes(frag.attrs)
       IN  /\ frag.kind \in {"open", "selfclose"}
           /\ IF frag.kind = "open"
              THEN /\ handle_starttag(frag.name, attrs)
                   /\ Deliver("start", frag.name, attrs)
                   /\ open' = Append(open, frag.name)
              ELSE /\ handle_startendtag(frag.name, attrs)
                   /\ Deliver("startend", frag.name, attrs)
                   /\ open' = open
    /\ UNCHANGED <<wellNested, nestedTags>>

NextAttrs ==
    \/ StartTag(AttrInputs, 1)
    \/ StartEndTag(AttrInputs, 1)
    \/ Refeed

SpecAttrs == Init /\ [][NextAttrs]_vars

(* ---------------------------------------------------------------------- *)
(* Two filter instances, each fed its own document, in any interleaving   *)
(* ---------------------------------------------------------------------- *)
TwoTags == {"nav", "p"}

TwoInputs == TwoTags \X {<<>>}

\* the fields of the instance that handles the events
SelfState ==
    [output |-> output,
     skip_content |-> skip_content,
     current_skip_tag |-> current_skip_tag,
     skip_media_content |-> skip_media_content,
     current_media_tag |-> current_media_tag,
     skip_form_content |-> skip_form_content,
     current_form_tag |-> current_form_tag,
     skip_nav_content |-> skip_nav_content,
     current_nav_tag |-> current_nav_tag,
     in_head |-> in_head,
     in_title |-> in_title]

\* the structure of the document that instance is fed
SelfInput == [open |-> open, wellNested |-> wellNested, nestedTags |-> nestedTags]

\* the fields of a new instance if output were a list of the class
FreshState_shared_output ==
    [output |-> output,
     skip_content |-> FALSE,
     current_skip_tag |-> NoTag,
     skip_media_content |-> FALSE,
     current_media_tag |-> NoTag,
     skip_form_content |-> FALSE,
     current_form_tag |-> NoTag,
     skip_nav_content |-> FALSE,
     current_nav_tag |-> NoTag,
     in_head |-> FALSE,
     in_title |-> FALSE]

\* the fields __init__ gives a new instance
FreshState ==
    [output |-> <<>>,
     skip_content |-> FALSE,
     current_skip_tag |-> NoTag,
     skip_media_content |-> FALSE,
     current_media_tag |-> NoTag,
     skip_form_content |-> FALSE,
     current_form_tag |-> NoTag,
     skip_nav_content |-> FALSE,
     current_nav_tag |-> NoTag,
     in_head |-> FALSE,
     in_title |-> FALSE]

\* a document of which nothing was fed
FreshInput == [open |-> <<>>, wellNested |-> TRUE, nestedTags |-> {}]

\* the instance with fields s becomes the one that handles the events
LoadState(s) ==
    /\ output' = s.output
    /\ skip_content' = s.skip_content
    /\ current_skip_tag' = s.current_skip_tag
    /\ skip_media_content' = s.skip_media_content
    /\ current_media_tag' = s.current_media_tag
    /\ skip_form_content' = s.skip_form_content
    /\ current_form_tag' = s.current_form_tag
    /\ skip_nav_content' = s.skip_nav_content
    /\ current_nav_tag' = s.current_nav_tag
    /\ in_head' = s.in_head
    /\ in_title' = s.in_title

\* a = HTMLCleaner(); b = HTMLCleaner()
InitTwo ==
    /\ Constructed
    /\ cur = 1
    /\ other = <<[self |-> FreshState, doc |-> FreshInput, at |-> 0]>>
    /\ hist = <<<<>>, <<>>>>
    /\ cli = NoCli
    /\ fmt = NoFmt

\* the next event goes to the other instance; the instance that hands over
\* has handled an event since it took over, or nothing was fed yet
Switch ==
    /\ cur # 0
    /\ (nEvents = 0 \/ other[1].at < nEvents)
    /\ cur' = 3 - cur
    /\ other' = <<[self |-> SelfState, doc |-> SelfInput, at |-> nEvents]>>
    /\ LoadState(other[1].self)
    /\ open' = other[1].doc.open
    /\ wellNested' = other[1].doc.wellNested
    /\ nestedTags' = other[1].doc.nestedTags
    /\ UNCHANGED <<ev, nEvents, hist, cli, fmt>>

\* the instance that is not handling events is replaced by HTMLCleaner()
NewInstance ==
    /\ cur # 0
    /\ other' = <<[self |-> FreshState, doc |-> FreshInput, at |-> nEvents]>>
    /\ hist' = [hist EXCEPT ![3 - cur] = <<>>]
    /\ UNCHANGED <<output, flags, section, ev, nEvents, open, wellNested,
                   nestedTags, cur, cli, fmt>>

NextTwo ==
    \/ StartTag(TwoInputs, MaxTwoEvents)
    \/ EndTag(TwoTags, MaxTwoEvents)
    \/ Data(MaxTwoEvents)
    \/ Switch
    \/ NewInstance

SpecTwo == InitTwo /\ [][NextTwo]_vars

(* ---------------------------------------------------------------------- *)
(* The command line: __main__ and clean_html.  The file system, the two   *)
(* message streams and the text of the document are the environment; the  *)
(* model keeps which operation succeeded and where control is, not the    *)
(* text that is read and written.                                         *)
(* ---------------------------------------------------------------------- *)
\* len(sys.argv): the script name and up to three arguments
Argc == 1..4

\* what open() of the input can do
OpenOutcomes == {"ok", "FileNotFoundError", "OSError"}

\* what f.read() with encoding='utf-8' can do
ReadOutcomes == {"ok", "UnicodeDecodeError"}

\* what feeding and post-processing can do
ProcessOutcomes == {"ok", "Exception"}

\* what f.write() and the close of the file can do
WriteOutcomes == {"ok", "OSError"}

\* what print() to sys.stdout can do
PrintOutcomes == {"ok", "UnicodeEncodeError"}

\* what sys.stderr.write() can do (sys.stderr is None when descriptor 2 is closed)
StderrOutcomes == {"ok", "AttributeError"}

CliFrame ==
    UNCHANGED <<output, flags, section, ev, nEvents, open, wellNested,
                nestedTags, cur, other, hist, fmt>>

\* python html_cleaner.py [input [output]], before the first statement
InitCli ==
    /\ Constructed
    /\ cur = 0
    /\ other = <<>>
    /\ hist = <<>>
    /\ fmt = NoFmt
    /\ \E n \in Argc :
         cli = [pc |-> "main", argc |-> n,
                input_file |-> "input.html", output_file |-> "output.html",
                opened_in |-> FALSE, read |-> FALSE, filtered |-> FALSE,
                opened_out |-> FALSE, written |-> FALSE, printed |-> FALSE,
                reported |-> "none", ret |-> "none", escaped |-> FALSE,
                exit |-> -1]

\* __main__: the arguments override the default paths, clean_html is called
Main ==
    /\ cli.pc = "main"
    /\ cli' = [cli EXCEPT !.pc = "open_in",
                          !.input_file = IF cli.argc >= 2 THEN "argv[1]" ELSE @,
                          !.output_file = IF cli.argc >= 3 THEN "argv[2]" ELSE @]
    /\ CliFrame

\* an exception raised inside the try block goes to the matching handler
Raise(c, e) ==
    [c EXCEPT !.pc = IF e = "FileNotFoundError" THEN "except_not_found"
                                                ELSE "except_exception"]

\* open(input_file, 'r', encoding='utf-8')
OpenInput ==
    /\ cli.pc = "open_in"
    /\ \E r \in OpenOutcomes :
         cli' = IF r = "ok" THEN [cli EXCEPT !.pc = "read", !.opened_in = TRUE]
                            ELSE Raise(cli, r)
    /\ CliFrame

\* html_content = f.read()
ReadInput ==
    /\ cli.pc = "read"
    /\ \E r \in ReadOutcomes :
         cli' = IF r = "ok" THEN [cli EXCEPT !.pc = "feed", !.read = TRUE]
                            ELSE Raise(cli, r)
    /\ CliFrame

\* cleaner.feed(html_content): the tokenizer delivers the events of the text
Feed ==
    /\ cli.pc = "feed"
    /\ \/ StartTag(TwoInputs, MaxCliEvents)
       \/ EndTag(TwoTags, MaxCliEvents)
       \/ Data(MaxCliEvents)

\* get_output, remove_empty_tags and the formatting of the text
PostProcess ==
    /\ cli.pc = "feed"
    /\ \E r \in ProcessOutcomes :
         cli' = IF r = "ok" THEN [cli EXCEPT !.pc = "open_out", !.filtered = TRUE]
                            ELSE Raise(cli, r)
    /\ CliFrame

\* open(output_file, 'w', encoding='utf-8')
OpenOutput ==
    /\ cli.pc = "open_out"
    /\ \E r \in OpenOutcomes :
         cli' = IF r = "ok" THEN [cli EXCEPT !.pc = "write", !.opened_out = TRUE]
                            ELSE Raise(cli, r)
    /\ CliFrame

\* f.write(cleaned_html) and the close of the file
WriteOutput ==
    /\ cli.pc = "write"
    /\ \E r \in WriteOutcomes :
         cli' = IF r = "ok" THEN [cli EXCEPT !.pc = "print", !.written = TRUE]
                            ELSE Raise(cli, r)
    /\ CliFrame

\* print(f"Successfully cleaned ..."); return True, inside the try block
PrintSuccess ==
    /\ cli.pc = "print"
    /\ \E r \in PrintOutcomes :
         cli' = IF r = "ok"
                THEN [cli EXCEPT !.pc = "returned", !.printed = TRUE, !.ret = "True"]
                ELSE Raise(cli, r)
    /\ CliFrame

\* what an except clause does: it writes msg to sys.stderr and returns False;
\* an exception of that write leaves clean_html
Report(msg) ==
    \E r \in StderrOutcomes :
        cli' = IF r = "ok"
               THEN [cli EXCEPT !.pc = "returned", !.reported = msg, !.ret = "False"]
               ELSE [cli EXCEPT !.pc = "uncaught", !.escaped = TRUE]

\* except FileNotFoundError as e
ExceptFileNotFound ==
    /\ cli.pc = "except_not_found"
    /\ Report("Error: File not found")
    /\ CliFrame

\* except Exception as e
ExceptException ==
    /\ cli.pc = "except_exception"
    /\ Report("Error")
    /\ CliFrame

\* sys.exit(0 if success else 1)
Exit ==
    /\ cli.pc = "returned"
    /\ cli' = [cli EXCEPT !.pc = "exited",
                          !.exit = IF cli.ret = "True" THEN 0 ELSE 1]
    /\ CliFrame

\* an exception that reaches the top of the script ends the process with status 1
Uncaught ==
    /\ cli.pc = "uncaught"
    /\ cli' = [cli EXCEPT !.pc = "exited", !.exit = 1]
    /\ CliFrame

NextCli ==
    \/ Main
    \/ OpenInput
    \/ ReadInput
    \/ Feed
    \/ PostProcess
    \/ OpenOutput
    \/ WriteOutput
    \/ PrintSuccess
    \/ ExceptFileNotFound
    \/ ExceptException
    \/ Exit
    \/ Uncaught

SpecCli == InitCli /\ [][NextCli]_vars

(* ---------------------------------------------------------------------- *)
(* remove_empty_tags: the text is a sequence of characters, the two       *)
(* regular expressions are matched as re.sub matches them, leftmost first *)
(* and without overlap                                                    *)
(* ---------------------------------------------------------------------- *)
removable_tags ==
    <<<<"d", "i", "v">>,
      <<"s", "p", "a", "n">>,
      <<"p">>,
      <<"l", "i">>,
      <<"u", "l">>,
      <<"o", "l">>,
      <<"h", "1">>,
      <<"h", "2">>,
      <<"h", "3">>,
      <<"h", "4">>,
      <<"h", "5">>,
      <<"h", "6">>,
      <<"s", "e", "c", "t", "i", "o", "n">>,
      <<"a", "r", "t", "i", "c", "l", "e">>,
      <<"a", "s", "i", "d", "e">>,
      <<"m", "a", "i", "n">>,
      <<"f", "i", "g", "u", "r", "e">>,
      <<"f", "i", "g", "c", "a", "p", "t", "i", "o", "n">>,
      <<"s", "t", "r", "o", "n", "g">>,
      <<"e", "m">>,
      <<"b">>,
      <<"i">>,
      <<"u">>,
      <<"s", "m", "a", "l", "l">>,
      <<"m", "a", "r", "k">>,
      <<"d", "e", "l">>,
      <<"i", "n", "s">>,
      <<"s", "u", "b">>,
      <<"s", "u", "p">>,
      <<"b", "l", "o", "c", "k", "q", "u", "o", "t", "e">>,
      <<"p", "r", "e">>,
      <<"c", "o", "d", "e">>,
      <<"k", "b", "d">>,
      <<"s", "a", "m", "p">>,
      <<"v", "a", "r">>,
      <<"a", "b", "b", "r">>,
      <<"a", "d", "d", "r", "e", "s", "s">>,
      <<"c", "i", "t", "e">>,
      <<"d", "f", "n">>,
      <<"t", "i", "m", "e">>,
      <<"d", "d">>,
      <<"d", "t">>,
      <<"d", "l">>>>

\* the characters \s matches
WhiteSpace == {" ", "\n", "\t", "\r", "\f"}

\* p stands in s at index i
StartsAt(s, i, p) ==
    /\ i + Len(p) - 1 <= Len(s)
    /\ \A k \in 1..Len(p) : s[i + k - 1] = p[k]

\* the least element of a non-empty set of indices
Least(S) == CHOOSE x \in S : \A y \in S : x <= y

\* the index of the first ">" at or after index i, or Len(s) + 1
FirstGt(s, i) ==
    LET found == {x \in i..Len(s) : s[x] = ">"}
    IN  IF found = {} THEN Len(s) + 1 ELSE Least(found)

\* the index of the first character at or after index i that \s does not
\* match, or Len(s) + 1
FirstNotSpace(s, i) ==
    LET found == {x \in i..Len(s) : s[x] \notin WhiteSpace}
    IN  IF found = {} THEN Len(s) + 1 ELSE Least(found)

\* <tag[^>]*>\s*</tag> matched at index i: the index after the match, or 0
MatchEmpty(tag, s, i) ==
    IF ~StartsAt(s, i, <<"<">> \o tag) THEN 0
    ELSE LET k == FirstGt(s, i + 1 + Len(tag))
         IN  IF k > Len(s) THEN 0
             ELSE LET m == FirstNotSpace(s, k + 1)
                  IN  IF StartsAt(s, m, <<"<", "/">> \o tag \o <<">">>)
                      THEN m + Len(tag) + 3
                      ELSE 0

\* ^\s*</[^>]+>\s*$ with re.MULTILINE matched at index i: the index after the
\* match, or 0.  $ stands at the end of the text and before each newline, so
\* the trailing \s* gives back what follows the last newline it ran over.
MatchOrphan(s, i) ==
    IF ~(i = 1 \/ s[i - 1] = "\n") THEN 0
    ELSE LET a == FirstNotSpace(s, i)
         IN  IF ~StartsAt(s, a, <<"<", "/">>) THEN 0
             ELSE LET k == FirstGt(s, a + 2)
                  IN  IF k > Len(s) \/ k = a + 2 THEN 0
                      ELSE LET e == FirstNotSpace(s, k + 1)
                               ends == {q \in (k + 1)..(e - 1) : s[q] = "\n"}
                           IN  IF e = Len(s) + 1 THEN e
                               ELSE IF ends = {} THEN 0
                               ELSE CHOOSE q \in ends : \A r \in ends : r <= q

\* where the leftmost match of the pattern of an empty tag at or after index
\* i starts, or 0
NextEmpty(tag, s, i) ==
    LET starts == {j \in i..Len(s) : MatchEmpty(tag, s, j) > 0}
    IN  IF starts = {} THEN 0 ELSE Least(starts)

\* re.sub(pattern, '', s) for the pattern of an empty tag, from index i on:
\* the text up to the leftmost match is kept, the search goes on after it
RECURSIVE SubEmpty(_, _, _, _)
SubEmpty(tag, s, i, acc) ==
    IF NextEmpty(tag, s, i) = 0 THEN acc \o SubSeq(s, i, Len(s))
    ELSE SubEmpty(tag, s, MatchEmpty(tag, s, NextEmpty(tag, s, i)),
                  acc \o SubSeq(s, i, NextEmpty(tag, s, i) - 1))

\* for tag in removable_tags: html_content = re.sub(...), from the t-th tag on
\* (nothing matches in the empty text)
RECURSIVE SubAllTags(_, _)
SubAllTags(s, t) ==
    IF Len(s) = 0 \/ t > Len(removable_tags) THEN s
    ELSE SubAllTags(SubEmpty(removable_tags[t], s, 1, <<>>), t + 1)

\* where the leftmost match of the pattern of an orphaned closing tag at or
\* after index i starts, or 0
NextOrphan(s, i) ==
    LET starts == {j \in i..Len(s) : MatchOrphan(s, j) > 0}
    IN  IF starts = {} THEN 0 ELSE Least(starts)

\* re.sub(pattern, '', s, flags=re.MULTILINE) for the orphaned closing tags
RECURSIVE SubOrphan(_, _, _)
SubOrphan(s, i, acc) ==
    IF NextOrphan(s, i) = 0 THEN acc \o SubSeq(s, i, Len(s))
    ELSE SubOrphan(s, MatchOrphan(s, NextOrphan(s, i)),
                   acc \o SubSeq(s, i, NextOrphan(s, i) - 1))

\* the body of the while loop up to the comparison with original
OnePass(s) == SubOrphan(SubAllTags(s, 1), 1, <<>>)

\* the pieces the inputs are put together from
Tokens ==
    {<<"<", "b", ">">>, <<"<", "/", "b", ">">>, <<"<", "p", ">">>,
     <<"<", "/", "p", ">">>, <<"\n">>, <<"x">>}

\* the texts made of n tokens
RECURSIVE TokenTexts(_)
TokenTexts(n) ==
    IF n = 0 THEN {<<>>}
    ELSE {t \o s : t \in Tokens, s \in TokenTexts(n - 1)}

\* <b> n times, then </b> n times
RECURSIVE Nested(_)
Nested(n) ==
    IF n = 0 THEN <<>>
    ELSE <<"<", "b", ">">> \o Nested(n - 1) \o <<"<", "/", "b", ">">>

\* short texts, and empty tags nested to the iteration cap and one beyond it
FmtInputs ==
    UNION {TokenTexts(n) : n \in 0..MaxTokens}
      \cup {Nested(max_iterations), Nested(max_iterations + 1)}

\* remove_empty_tags(s) is called; once more on its result when app = 1
InitFmt ==
    /\ Constructed
    /\ cur = 0
    /\ other = <<>>
    /\ hist = <<>>
    /\ cli = NoCli
    /\ \E s \in FmtInputs :
         fmt = [pc |-> "loop", app |-> 1, html_content |-> s,
                iteration |-> 0, first |-> <<>>]

FmtFrame ==
    UNCHANGED <<output, flags, section, ev, nEvents, open, wellNested,
                nestedTags, cur, other, hist, cli>>

\* one iteration of the while loop: break when nothing changed
Iterate ==
    /\ fmt.pc = "loop"
    /\ fmt.iteration < max_iterations
    /\ LET changed == OnePass(fmt.html_content)
       IN  fmt' = IF changed = fmt.html_content
                  THEN [fmt EXCEPT !.pc = "return"]
                  ELSE [fmt EXCEPT !.html_content = changed,
                                   !.iteration = @ + 1]
    /\ FmtFrame

\* the loop condition fails: the cap is reached
LoopExit ==
    /\ fmt.pc = "loop"
    /\ fmt.iteration >= max_iterations
    /\ fmt' = [fmt EXCEPT !.pc = "return"]
    /\ FmtFrame

\* return html_content; the first result is passed to a second call
Return ==
    /\ fmt.pc = "return"
    /\ fmt' = IF fmt.app = 1
              THEN [fmt EXCEPT !.pc = "loop", !.app = 2, !.iteration = 0,
                               !.first = fmt.html_content]
              ELSE [fmt EXCEPT !.pc = "done"]
    /\ FmtFrame

NextFmt ==
    \/ Iterate
    \/ LoopExit
    \/ Return

SpecFmt == InitFmt /\ [][NextFmt]_vars

(* ---------------------------------------------------------------------- *)
(* Vocabulary of the properties                                           *)
(* ---------------------------------------------------------------------- *)
SkipActive ==
    skip_content \/ skip_media_content \/ skip_form_content \/ skip_nav_content

\* the tags whose start tag opens a skip region
SkipOpeners ==
    REMOVE_WITH_CONTENT \cup FORM_TAGS \cup NAV_TAGS \cup MEDIA_TAGS_WITH_CONTENT

\* the tags that are removed, with or without content
RemovedTags ==
    REMOVE_WITH_CONTENT \cup FORM_TAGS \cup NAV_TAGS \cup MEDIA_TAGS \cup METADATA_TAGS

\* the open elements of the input that have an end tag of their own and
\* whose start tag opens a skip region, same-name nesting excluded
OpenSkipElements ==
    {open[i] : i \in 1..Len(open)} \cap (SkipOpeners \ (VoidTags \cup nestedTags))

InHeadSpan == "head" \in Range(open)

InTitleSpan == "title" \in Range(open)

\* the text event delivered in this step was appended verbatim
TextAppended == output' = Append(output, data_string(ev'.tag))

(* ---------------------------------------------------------------------- *)
(* Properties                                                             *)
(* ---------------------------------------------------------------------- *)

\* C1: while a skip region of any category is active, a start-tag,
\* self-closing-tag or text event appends nothing to the output.
C1_SuppressedInsideSkipRegion ==
    [][(SkipActive /\ ev'.kind \in {"start", "startend", "data"})
         => output' = output]_vars

\* C2: in a well-nested event sequence, a text event between the start tag
\* of a skip-opening element X and X's own end tag is suppressed, also when
\* elements of other names were opened and closed inside X.
C2_RegionLastsUntilOwnEndTag ==
    [][(ev'.kind = "data" /\ wellNested' /\ OpenSkipElements # {})
         => output' = output]_vars

\* C3: a text event outside the span of every removed-with-content element
\* and outside head-but-not-title is appended to the output, also after the
\* start tag of an element that never gets an end tag.
C3_VisibleTextRetained ==
    [][(/\ ev'.kind = "data"
        /\ wellNested'
        /\ Range(open) \cap SkipOpeners = {}
        /\ ~(InHeadSpan /\ ~InTitleSpan))
         => TextAppended]_vars

\* C4: a text event is appended verbatim exactly when no skip region is
\* active and it is not the case that in_head holds while in_title does
\* not; it changes no skip flag, recorded tag or section flag.
C4_TextEmittedIff ==
    [][ev'.kind = "data"
         => /\ (TextAppended <=> (~SkipActive /\ ~(in_head /\ ~in_title)))
            /\ (output' = output \/ TextAppended)
            /\ UNCHANGED <<flags, section>>]_vars

\* C4 witness: a text inside title inside head was emitted
C4_Witness ==
    /\ ev.kind = "data"
    /\ in_head /\ in_title /\ ~SkipActive
    /\ output # <<>>
    /\ output[Len(output)] = data_string(ev.tag)

\* C5: the output holds no opening, closing or self-closing tag whose name
\* is in a removed set or in the unwrap set.
C5_NoRemovedTagInOutput ==
    \A i \in 1..Len(output) :
        output[i].kind \in {"open", "close", "selfclose"}
            => output[i].name \notin (RemovedTags \cup UNWRAP_TAGS)

\* the emitted tags are balanced: scanning fragments left to right with the
\* stack of emitted open tags that are still unclosed, every closing tag
\* closes the innermost one
RECURSIVE Paired(_, _)
Paired(frags, stack) ==
    IF frags = <<>> THEN TRUE
    ELSE LET f == Head(frags) IN
         IF f.kind = "open" THEN
             Paired(Tail(frags),
                    IF f.name \in VoidTags THEN stack ELSE Append(stack, f.name))
         ELSE IF f.kind = "close" THEN
             /\ stack # <<>>
             /\ stack[Len(stack)] = f.name
             /\ Paired(Tail(frags), SubSeq(stack, 1, Len(stack) - 1))
         ELSE Paired(Tail(frags), stack)

\* C6: for a well-nested input the output is well-formed: every emitted
\* closing tag matches the most recent emitted opening tag still unclosed.
C6_OutputWellFormed ==
    wellNested => Paired(output, <<>>)

\* C7: a start tag and an end tag of an unwrap tag (a, span) append nothing
\* and leave every skip flag, recorded skip tag and section flag unchanged.
C7_UnwrapIsTransparent ==
    [][(ev'.kind \in {"start", "end"} /\ ev'.tag \in {"a", "span"})
         => /\ output' = output
            /\ UNCHANGED <<flags, section>>]_vars

\* C7 witness: <a>t</a> was processed, the text was emitted and the end tag
\* of the unwrap tag has just been dropped
C7_Witness ==
    /\ ev.kind = "end"
    /\ ev.tag = "a"
    /\ wellNested
    /\ open = <<>>
    /\ output = <<data_string("t")>>

\* the hidden signal of an attribute list, as the specification words it
HiddenSignal(attrs) ==
    \E i \in 1..Len(attrs) :
        \/ attrs[i][1] = S_hidden
        \/ attrs[i] = <<S_aria_hidden, S_true>>
        \/ attrs[i] = <<S_type, S_hidden>>

C9_HeadTitleDiscrimination ==
    [][(/\ ev'.kind = "data"
        /\ nestedTags \cap {"head", "title"} = {}
        /\ ~SkipActive)
         => /\ (InHeadSpan /\ ~InTitleSpan) => output' = output
            /\ InTitleSpan => TextAppended
            /\ ~InHeadSpan => TextAppended]_vars

\* C9 witness: <head><title>t</title>t : the text of the title was emitted
\* and the text after </title>, still inside head, was not
C9_Witness ==
    /\ ev.kind = "data"
    /\ open = <<"head">>
    /\ Len(output) = 4
    /\ output[3] = data_string("t")
    /\ output[4] = end_tag_string("title")

\* C10: in every state, a declaration event with data d appends exactly the
\* fragment <!d> and changes no flag; as the first event it gives the first
\* output fragment.
C10_DeclarationPassthrough ==
    [][ev'.kind = "decl"
         => /\ output' = Append(output, decl_string(ev'.tag))
            /\ UNCHANGED <<flags, section>>
            /\ (nEvents = 0 => output'[1] = decl_string(ev'.tag))]_vars

\* C10 witness: a declaration was emitted while a skip region was active
\* and in_head was set
C10_Witness ==
    /\ ev.kind = "decl"
    /\ SkipActive
    /\ in_head
    /\ output = <<decl_string(ev.tag)>>

\* C11: in every state, inside or outside a skip region, a comment event
\* appends nothing and leaves all skip flags, recorded skip tags and section
\* flags unchanged.
C11_CommentRemoved ==
    [][ev'.kind = "comment"
         => /\ output' = output
            /\ UNCHANGED <<flags, section>>]_vars

\* C11 witness: a comment was dropped outside every skip region, after a
\* start tag and a text had been emitted
C11_Witness ==
    /\ ev.kind = "comment"
    /\ ~SkipActive
    /\ nEvents = 3
    /\ Len(output) = 2

\* the first three events were start(form), start(form), end(form)
AfterInnerFormClosed ==
    /\ nEvents = 3
    /\ ev = [kind |-> "end", tag |-> "form", attrs |-> <<>>]
    /\ wellNested
    /\ open = <<"form">>
    /\ nestedTags = {"form"}

\* the first four events were start(form), start(form), end(form), text
AfterTextInOuterForm ==
    /\ nEvents = 4
    /\ ev.kind = "data"
    /\ wellNested
    /\ open = <<"form">>
    /\ nestedTags = {"form"}

\* C17: on a new filter the events start(form), start(form), end(form),
\* text(t), end(form) behave as follows: the first end(form) deactivates
\* the form skip region, the text, inside the outer form, is emitted, and
\* the second end(form) emits nothing.
C17_SameNameNesting ==
    [][/\ AfterInnerFormClosed' =>
            /\ ~skip_form_content'
            /\ current_form_tag' = NoTag
            /\ output' = <<>>
       /\ (AfterInnerFormClosed /\ ev'.kind = "data") =>
            output' = <<data_string(ev'.tag)>>
       /\ (AfterTextInOuterForm
             /\ ev' = [kind |-> "end", tag |-> "form", attrs |-> <<>>]) =>
            /\ output' = output
            /\ UNCHANGED flags]_vars

\* C17 witness: after start(form), start(form), end(form), text the text is
\* in the output
C17_Witness ==
    /\ AfterTextInOuterForm
    /\ output = <<data_string(ev.tag)>>
    /\ ~SkipActive

\* C18: a self-closing-tag event leaves the four skip flags, the four
\* recorded skip tags, in_head and in_title unchanged and appends at most
\* one fragment.
C18_SelfClosingOpensNoRegion ==
    [][ev'.kind = "startend"
         => /\ UNCHANGED <<flags, section>>
            /\ \/ output' = output
               \/ /\ Len(output') = Len(output) + 1
                  /\ SubSeq(output', 1, Len(output)) = output]_vars

\* C18 witness: <head/> was emitted and in_head is not set
C18_Witness ==
    /\ ev.kind = "startend"
    /\ ev.tag = "head"
    /\ ~in_head
    /\ ~SkipActive
    /\ output # <<>>
    /\ output[Len(output)].kind = "selfclose"

\* the fragment an event is rendered as when it is emitted
Rendering(e) ==
    CASE e.kind = "start" ->
           [kind |-> "open", name |-> e.tag,
            attrs |-> [i \in 1..Len(clean_attributes(e.attrs)) |->
                          render_attribute(clean_attributes(e.attrs)[i])]]
      [] e.kind = "startend" ->
           [kind |-> "selfclose", name |-> e.tag,
            attrs |-> [i \in 1..Len(clean_attributes(e.attrs)) |->
                          render_attribute(clean_attributes(e.attrs)[i])]]
      [] e.kind = "end" -> [kind |-> "close", name |-> e.tag, attrs |-> <<>>]
      [] e.kind = "data" -> [kind |-> "text", name |-> e.tag, attrs |-> <<>>]
      [] e.kind = "decl" -> [kind |-> "decl", name |-> e.tag, attrs |-> <<>>]
      [] OTHER -> [kind |-> "none", name |-> e.tag, attrs |-> <<>>]

\* C19: the output is append-only and order-preserving: every event leaves
\* the output as it is or appends one fragment, the rendering of that
\* event, after the fragments already there; a comment appends nothing.
C19_OutputAppendOnly ==
    [][\/ output' = output
       \/ /\ ev'.kind # "comment"
          /\ output' = Append(output, Rendering(ev'))]_vars

\* C19 witness: of three events the first was suppressed and the two others
\* were appended in their order
C19_Witness ==
    /\ nEvents = 3
    /\ ev.kind = "data"
    /\ Len(output) = 2
    /\ output[1].kind = "open"
    /\ output[2] = data_string(ev.tag)

\* the recorded tag of a category is set exactly when its flag is, and is a
\* tag of that category
SlotConsistent(flag, tag, category) ==
    /\ flag <=> tag # NoTag
    /\ tag # NoTag => tag \in category

\* the number of skip regions that are active
ActiveRegions(s, f, n, m) ==
    Cardinality({c \in {"skip", "form", "nav", "media"} :
                    \/ c = "skip" /\ s
                    \/ c = "form" /\ f
                    \/ c = "nav" /\ n
                    \/ c = "media" /\ m})

\* C20: in every state and for each of the four skip categories, the flag
\* is true exactly when the recorded tag is not None, and a recorded tag
\* belongs to its own category; an end-tag event deactivates at most one
\* region, activates none, and leaves the flags and recorded tags of the
\* other categories unchanged.
C20_SlotsConsistent ==
    /\ [](/\ SlotConsistent(skip_content, current_skip_tag, REMOVE_WITH_CONTENT)
          /\ SlotConsistent(skip_form_content, current_form_tag, FORM_TAGS)
          /\ SlotConsistent(skip_nav_content, current_nav_tag, NAV_TAGS)
          /\ SlotConsistent(skip_media_content, current_media_tag,
                            MEDIA_TAGS_WITH_CONTENT))
    /\ [][ev'.kind = "end" =>
            /\ ActiveRegions(skip_content', skip_form_content',
                             skip_nav_content', skip_media_content')
                 >= ActiveRegions(skip_content, skip_form_content,
                                  skip_nav_content, skip_media_content) - 1
            /\ skip_content' => skip_content
            /\ skip_form_content' => skip_form_content
            /\ skip_nav_content' => skip_nav_content
            /\ skip_media_content' => skip_media_content
            /\ skip_content' = skip_content => current_skip_tag' = current_skip_tag
            /\ skip_form_content' = skip_form_content
                 => current_form_tag' = current_form_tag
            /\ skip_nav_content' = skip_nav_content
                 => current_nav_tag' = current_nav_tag
            /\ skip_media_content' = skip_media_content
                 => current_media_tag' = current_media_tag]_vars

\* C20 witness: with a form and a navigation region active, the end tag of
\* the form tag closed the form region and left the navigation region
C20_Witness ==
    /\ ev.kind = "end"
    /\ ev.tag \in FORM_TAGS
    /\ nEvents = 3
    /\ skip_nav_content
    /\ current_nav_tag = "nav"
    /\ ~skip_form_content
    /\ current_form_tag = NoTag

\* C12: attribute dropping is idempotent: clean(clean(L)) = clean(L) for
\* every attribute list L, and the filter run on the tag it emitted emits
\* the same tag again, every attribute kept.
C12_AttributeDroppingIdempotent ==
    /\ clean_attributes(clean_attributes(ev.attrs)) = clean_attributes(ev.attrs)
    /\ nEvents = 2 =>
          /\ Len(output) = 2
          /\ output[2].name = output[1].name
          /\ output[2].kind = output[1].kind
          /\ Len(output[2].attrs) = Len(output[1].attrs)
          /\ \A i \in 1..Len(output[1].attrs) : output[2].attrs[i] = output[1].attrs[i]

\* C12 witness: the second pass emitted a tag with the two attributes the
\* first pass had kept
C12_Witness ==
    /\ nEvents = 2
    /\ ev.kind = "start"
    /\ Len(ev.attrs) = 2
    /\ Len(output) = 2
    /\ Len(output[2].attrs) = 2

\* an attribute is kept: its name is none of style, href, class, id and
\* starts with none of on, data-, aria-
KeptAttribute(a) ==
    LET name == a[1] IN
    /\ name \notin {<<"s", "t", "y", "l", "e">>, <<"h", "r", "e", "f">>,
                    <<"c", "l", "a", "s", "s">>, <<"i", "d">>}
    /\ ~(Len(name) >= 2 /\ SubSeq(name, 1, 2) = <<"o", "n">>)
    /\ ~(Len(name) >= 5 /\ SubSeq(name, 1, 5) = <<"d", "a", "t", "a", "-">>)
    /\ ~(Len(name) >= 5 /\ SubSeq(name, 1, 5) = <<"a", "r", "i", "a", "-">>)

\* C13: the attributes of an emitted tag are exactly the attributes of the
\* event whose name is kept, each decided by its own name, in their
\* original order.
C13_AttributeFilter ==
    (nEvents = 1 /\ ev.kind \in {"start", "startend"}) =>
        /\ Len(output) = 1
        /\ LET kept == SelectSeq(ev.attrs, KeptAttribute) IN
           /\ Len(output[1].attrs) = Len(kept)
           /\ \A i \in 1..Len(kept) :
                 /\ output[1].attrs[i][1] = kept[i][1]
                 /\ output[1].attrs[i][2] =
                        escape(IF kept[i][2] = NoneValue THEN <<>> ELSE kept[i][2])

\* C13 witness: of the attributes class and data the first was dropped and
\* the second kept
C13_Witness ==
    /\ nEvents = 1
    /\ Len(ev.attrs) = 2
    /\ ev.attrs[1][1] = S_class
    /\ ev.attrs[2][1] = <<"d", "a", "t", "a">>
    /\ Len(output) = 1
    /\ Len(output[1].attrs) = 1
    /\ output[1].attrs[1][1] = <<"d", "a", "t", "a">>

\* C15: two instances fed interleaved events are isolated.  An instance's
\* fields are a function of the events it handled itself: two instances that
\* handled the same events hold the same fields and output, whatever the
\* interleaving was; an instance that handled nothing holds the fields of
\* construction (flags false, output empty); a handler of one instance leaves
\* the other's fields as they were, and passing control keeps both.
FreshFields ==
    [output |-> <<>>,
          skip_content |-> FALSE,
          current_skip_tag |-> NoTag,
          skip_media_content |-> FALSE,
          current_media_tag |-> NoTag,
          skip_form_content |-> FALSE,
          current_form_tag |-> NoTag,
          skip_nav_content |-> FALSE,
          current_nav_tag |-> NoTag,
          in_head |-> FALSE,
          in_title |-> FALSE]

C15_InstanceIsolation ==
    /\ [](cur # 0 =>
            /\ (hist[1] = hist[2] => other[1].self = SelfState)
            /\ (hist[cur] = <<>> => SelfState = FreshFields)
            /\ (hist[3 - cur] = <<>> => other[1].self = FreshFields))
    /\ [][cur # 0 =>
            /\ (nEvents' # nEvents => other' = other /\ cur' = cur)
            /\ (cur' # cur => /\ other'[1].self = SelfState
                              /\ SelfState' = other[1].self)]_vars

C15_Witness ==
    /\ cur = 2
    /\ Len(hist[1]) = 2
    /\ hist[1] = hist[2]
    /\ hist[1][1].kind = "start"
    /\ other[1].at = 3
    /\ nEvents = 4
    /\ output # <<>>
    /\ other[1].self.output = output

\* C16: clean_html lets no error escape; it returns True and the process
\* exits 0 exactly when reading, filtering and writing all succeeded, and
\* returns False with exit status 1 otherwise; when the input was not opened
\* the output file is neither opened nor written.
AllSucceeded == cli.read /\ cli.filtered /\ cli.written

C16_CliOutcome ==
    cli.pc # "none" =>
      /\ ~cli.escaped
      /\ (cli.pc \in {"returned", "exited"} =>
            /\ (cli.ret = "True" <=> AllSucceeded)
            /\ (cli.ret = "False" <=> ~AllSucceeded))
      /\ (cli.pc = "exited" =>
            /\ (cli.exit = 0 <=> AllSucceeded)
            /\ (cli.exit = 1 <=> ~AllSucceeded))
      /\ (~cli.opened_in => ~cli.opened_out /\ ~cli.written)

\* C14: remove_empty_tags applied to its own result gives that result again,
\* for every text, empty tags nested deeper than the iteration cap included.
C14_RoundTripStable ==
    fmt.pc = "done" => fmt.html_content = fmt.first

====
